---- MODULE Spec2Model ----
(***************************************************************************)
(* PySyn: the oscillator registry (osc.py), the Time sample grid (time.py), *)
(* Track (track.py) and Mixer (mixer.py), as a state machine whose actions  *)
(* are the public calls of the package.                                     *)
(*                                                                          *)
(* Numbers.  Time values are floats in the source; here a time is an exact  *)
(* rational.  The arguments of Time(duration, start) are integers counting  *)
(* half sample periods (1 / UnitsPerSecond seconds), and a sample instant   *)
(* is a reduced fraction [num, den] of that unit.                           *)
(*                                                                          *)
(* Buffers.  A generator applies one real function to every element of the  *)
(* time array; a sample is kept as the term [gen, freq, phase, t] instead   *)
(* of its real value.                                                       *)
(***************************************************************************)
EXTENDS Integers, Sequences, FiniteSets

VARIABLES
    _oscs,        \* osc.py: the module-level registry, name -> generator
    oscillators,  \* the Oscillator objects constructed so far
    mixer,        \* the Mixer object: its _tracks and _levels dicts
    last,         \* the most recent call: its name and arguments
    ret           \* what that call returned or raised

vars == <<_oscs, oscillators, mixer, last, ret>>

-----------------------------------------------------------------------------
(* Bounds of the model *)

\* -MaxNegDur <= duration <= MaxDur time units
MaxDur == 5
MaxNegDur == 2
\* 0 <= start <= MaxStart time units
MaxStart == 1
\* at most MaxOscs Oscillator objects are alive
MaxOscs == 2

-----------------------------------------------------------------------------
(* Python values *)

None == "None"

\* the outcome of a call: a returned value, or a raised exception
Return(type, val) == [raised |-> None, type |-> type, val |-> val]

ReturnNone == Return("NoneType", <<>>)

Raise(exc) == [raised |-> exc, type |-> "NoReturn", val |-> <<>>]

\* a Python dict: the sequence of its <<key, value>> items in insertion order
dict_keys(d) == [i \in 1..Len(d) |-> d[i][1]]

dict_contains(d, k) == \E i \in 1..Len(d) : d[i][1] = k

dict_index(d, k) == CHOOSE i \in 1..Len(d) : d[i][1] = k

\* d.get(k): the value, None when k is no key
dict_get(d, k) == IF dict_contains(d, k) THEN d[dict_index(d, k)][2] ELSE None

\* d[k] = v: replaces the value in place, or appends a new item
dict_setitem(d, k, v) ==
    IF dict_contains(d, k)
    THEN [d EXCEPT ![dict_index(d, k)] = <<k, v>>]
    ELSE Append(d, <<k, v>>)

\* d.setdefault(k, v): inserts only when k is no key
dict_setdefault(d, k, v) ==
    IF dict_contains(d, k) THEN d ELSE Append(d, <<k, v>>)

-----------------------------------------------------------------------------
(* time.py *)

_sampling_rate == 44100

\* time units (half sample periods) per second
UnitsPerSecond == 2 * _sampling_rate

RECURSIVE gcd(_, _)
gcd(a, b) == IF b = 0 THEN a ELSE gcd(b, a % b)

abs(x) == IF x < 0 THEN -x ELSE x

\* the rational n / d (d > 0), reduced
Frac(n, d) ==
    LET g == gcd(abs(n), d)
    IN  [num |-> n \div g, den |-> d \div g]

\* Python's int() of the rational n / d (d > 0): truncation toward zero
int(n, d) == IF n >= 0 THEN n \div d ELSE -((-n) \div d)

Time(duration, start) == [duration |-> duration, start |-> start]

\* np.linspace(start, stop, num, endpoint=True): the last sample is stop
linspace_endpoint(start, stop, num) ==
    IF num < 0 THEN Raise("ValueError")
    ELSE IF num = 1 THEN Return("ndarray", <<Frac(start, 1)>>)
    ELSE Return("ndarray",
           [i \in 1..num |->
               Frac(start * (num - 1) + (i - 1) * (stop - start), num - 1)])

\* np.linspace(start, stop, num, endpoint=False): num samples
\* start + i * (stop - start) / num, i = 0 .. num - 1; a negative num raises
linspace(start, stop, num) ==
    IF num < 0 THEN Raise("ValueError")
    ELSE Return("ndarray",
           [i \in 1..num |-> Frac(start * num + (i - 1) * (stop - start), num)])

Time_get_array(self) ==
    linspace(self.start,
             self.start + self.duration,
             int(_sampling_rate * self.duration, UnitsPerSecond))

-----------------------------------------------------------------------------
(* osc.py *)

\* a generator maps every instant of t to the sample f(freq, t, phase)
elementwise(f, t, freq, phase) ==
    [i \in 1..Len(t) |-> [gen |-> f, freq |-> freq, phase |-> phase, t |-> t[i]]]

_generate_sin(t, freq, phase) == elementwise("_generate_sin", t, freq, phase)

_generate_sqr(t, freq, phase) == elementwise("_generate_sqr", t, freq, phase)

_generate_tri(t, freq, phase) == elementwise("_generate_tri", t, freq, phase)

_generate_saw(t, freq, phase) == elementwise("_generate_saw", t, freq, phase)

\* a caller's generator, of the shape add_oscillator documents
user_wave(t, freq, phase) == elementwise("user_wave", t, freq, phase)

\* wave_func(t, freq, phase), wave_func a value held by the registry
call(wave_func, t, freq, phase) ==
    CASE wave_func = "_generate_sin" -> Return("ndarray", _generate_sin(t, freq, phase))
      [] wave_func = "_generate_sqr" -> Return("ndarray", _generate_sqr(t, freq, phase))
      [] wave_func = "_generate_tri" -> Return("ndarray", _generate_tri(t, freq, phase))
      [] wave_func = "_generate_saw" -> Return("ndarray", _generate_saw(t, freq, phase))
      [] wave_func = "user_wave" -> Return("ndarray", user_wave(t, freq, phase))
      [] OTHER -> Raise("TypeError")

_oscs_init ==
    << <<"Sine", "_generate_sin">>,
       <<"Square", "_generate_sqr">>,
       <<"Triangle", "_generate_tri">>,
       <<"Sawtooth", "_generate_saw">> >>

\* the check is dropped: an existing name is overwritten
add_oscillator_unchecked(reg, name, wave_func) ==
    [ret |-> ReturnNone, _oscs |-> dict_setitem(reg, name, wave_func)]

\* the entry is written before the check raises
add_oscillator_late_check(reg, name, wave_func) ==
    IF dict_contains(reg, name)
    THEN [ret |-> Raise("NameError"), _oscs |-> dict_setitem(reg, name, wave_func)]
    ELSE [ret |-> ReturnNone, _oscs |-> dict_setitem(reg, name, wave_func)]

add_oscillator(reg, name, wave_func) ==
    IF dict_contains(reg, name)
    THEN [ret |-> Raise("NameError"), _oscs |-> reg]
    ELSE [ret |-> ReturnNone, _oscs |-> dict_setitem(reg, name, wave_func)]

\* the lookup is unguarded and binds whatever get() gives
Oscillator_init_unguarded(reg, wave) ==
    Return("Oscillator", <<[_wave |-> wave, _wave_func |-> dict_get(reg, wave)]>>)

\* the generator bound is the sine generator, whatever the wave
Oscillator_init_sine(reg, wave) ==
    IF dict_get(reg, wave) = None
    THEN Raise("NameError")
    ELSE Return("Oscillator", <<[_wave |-> wave, _wave_func |-> dict_get(reg, "Sine")]>>)

\* Oscillator(wave): the new object, or NameError
Oscillator_init(reg, wave) ==
    IF dict_get(reg, wave) = None
    THEN Raise("NameError")
    ELSE Return("Oscillator", <<[_wave |-> wave, _wave_func |-> dict_get(reg, wave)]>>)

Oscillator_oscillate(self, t, freq, phase) ==
    LET arr == Time_get_array(t)
    IN  IF arr.raised # None THEN arr
        ELSE call(self._wave_func, arr.val, freq, phase)

-----------------------------------------------------------------------------
(* track.py *)

Track_init(osc, steps) == [_osc |-> osc, _steps |-> steps, _filters |-> <<>>]

\* the body is the Ellipsis expression: the method returns None
Track_compile_(self) == ReturnNone

-----------------------------------------------------------------------------
(* mixer.py *)

DefaultLevel == 1

Mixer_init == [_tracks |-> <<>>, _levels |-> <<>>]

\* the level is not registered with the track
Mixer_add_track_no_level(self, osc, steps, name) ==
    [_tracks |-> dict_setdefault(self._tracks, name, Track_init(osc, steps)),
     _levels |-> self._levels]

\* the track is assigned, not set by default
Mixer_add_track_assign(self, osc, steps, name) ==
    [_tracks |-> dict_setitem(self._tracks, name, Track_init(osc, steps)),
     _levels |-> dict_setdefault(self._levels, name, DefaultLevel)]

Mixer_add_track(self, osc, steps, name) ==
    [_tracks |-> dict_setdefault(self._tracks, name, Track_init(osc, steps)),
     _levels |-> dict_setdefault(self._levels, name, DefaultLevel)]

\* every track is compiled, in insertion order, and the result dropped
Mixer_compile_(self) ==
    LET compiled_track ==
            [i \in 1..Len(self._tracks) |-> Track_compile_(self._tracks[i][2])]
    IN  IF \E i \in 1..Len(compiled_track) : compiled_track[i].raised # None
        THEN compiled_track[CHOOSE i \in 1..Len(compiled_track) :
                                /\ compiled_track[i].raised # None
                                /\ \A j \in 1..(i - 1) : compiled_track[j].raised = None]
        ELSE ReturnNone

Mixer_play(self) == ReturnNone

Mixer_compile_play(self) ==
    LET c == Mixer_compile_(self)
    IN  IF c.raised # None THEN c ELSE Mixer_play(self)

-----------------------------------------------------------------------------
(* The arguments the calls are made with *)

BuiltinNames == {"Sine", "Square", "Triangle", "Sawtooth"}

CustomNames == {"Buzz", "Noise"}

WaveNames == BuiltinNames \cup CustomNames

\* wave_func arguments
WaveFuncs == {"user_wave"}

Durations == (-MaxNegDur)..MaxDur

Starts == 0..MaxStart

\* (freq, phase) arguments; the phase counts radians
Tones == { <<440, 0>>, <<-3, 1>> }

TrackNames == {"lead", "bass"}

\* step lists of (pitch, duration) tokens
StepLists ==
    { <<>>,
      << <<"A4", "long">> >>,
      << <<"A4", "long">>, <<"E5", "short">> >> }

-----------------------------------------------------------------------------
(* The state machine *)

Init ==
    /\ _oscs = _oscs_init
    /\ oscillators = {}
    /\ mixer = Mixer_init
    /\ last = [op |-> "import pysyn"]
    /\ ret = ReturnNone

\* add_oscillator(name, wave_func)
AddOscillator ==
    \E name \in WaveNames, wave_func \in WaveFuncs :
        LET r == add_oscillator(_oscs, name, wave_func)
        IN  /\ _oscs' = r._oscs
            /\ ret' = r.ret
            /\ last' = [op |-> "add_oscillator", name |-> name, wave_func |-> wave_func]
            /\ UNCHANGED <<oscillators, mixer>>

\* Oscillator(wave); the caller keeps the object when one is returned
NewOscillator ==
    \E wave \in WaveNames :
        LET r == Oscillator_init(_oscs, wave)
            objs == IF r.raised = None
                    THEN oscillators \cup {r.val[1]}
                    ELSE oscillators
        IN  /\ Cardinality(objs) <= MaxOscs
            /\ oscillators' = objs
            /\ ret' = r
            /\ last' = [op |-> "Oscillator", wave |-> wave]
            /\ UNCHANGED <<_oscs, mixer>>

\* Time(duration, start).get_array()
GetArray ==
    \E duration \in Durations, start \in Starts :
        /\ ret' = Time_get_array(Time(duration, start))
        /\ last' = [op |-> "get_array", t |-> Time(duration, start)]
        /\ UNCHANGED <<_oscs, oscillators, mixer>>

\* osc.oscillate(Time(duration, start), freq, phase)
Oscillate ==
    \E osc \in oscillators, duration \in Durations, start \in Starts,
       tone \in Tones :
        /\ ret' = Oscillator_oscillate(osc, Time(duration, start), tone[1], tone[2])
        /\ last' = [op |-> "oscillate", osc |-> osc, t |-> Time(duration, start),
                    freq |-> tone[1], phase |-> tone[2]]
        /\ UNCHANGED <<_oscs, oscillators, mixer>>

\* mixer.add_track(osc, steps, name)
AddTrack ==
    \E osc \in oscillators, steps \in StepLists, name \in TrackNames :
        /\ mixer' = Mixer_add_track(mixer, osc, steps, name)
        /\ ret' = ReturnNone
        /\ last' = [op |-> "add_track", osc |-> osc, steps |-> steps, name |-> name]
        /\ UNCHANGED <<_oscs, oscillators>>

\* mixer._tracks[name].compile_()
TrackCompile ==
    \E i \in 1..Len(mixer._tracks) :
        /\ ret' = Track_compile_(mixer._tracks[i][2])
        /\ last' = [op |-> "Track.compile_", name |-> mixer._tracks[i][1]]
        /\ UNCHANGED <<_oscs, oscillators, mixer>>

\* mixer.compile_()
MixerCompile ==
    /\ ret' = Mixer_compile_(mixer)
    /\ last' = [op |-> "compile_"]
    /\ UNCHANGED <<_oscs, oscillators, mixer>>

\* mixer.play()
MixerPlay ==
    /\ ret' = Mixer_play(mixer)
    /\ last' = [op |-> "play"]
    /\ UNCHANGED <<_oscs, oscillators, mixer>>

\* mixer.compile_play()
MixerCompilePlay ==
    /\ ret' = Mixer_compile_play(mixer)
    /\ last' = [op |-> "compile_play"]
    /\ UNCHANGED <<_oscs, oscillators, mixer>>

\* the registry, the oscillators and the sample grid
Next ==
    \/ AddOscillator
    \/ NewOscillator
    \/ GetArray
    \/ Oscillate

Spec == Init /\ [][Next]_vars

\* the mixer and its tracks, over oscillators of the built-in waves
NextMixer ==
    \/ NewOscillator
    \/ AddTrack
    \/ TrackCompile
    \/ MixerCompile
    \/ MixerPlay
    \/ MixerCompilePlay

SpecMixer == Init /\ [][NextMixer]_vars

-----------------------------------------------------------------------------
(* Mixer.add_track *)

\* C1: add_track with a name that is already a key of the mixer changes
\* neither dict (the stored track, its level, every other track and level
\* stay as they were) and returns without raising.
C1_AddTrackExistingNameIsNoOp ==
    [][ (last'.op = "add_track" /\ dict_contains(mixer._tracks, last'.name))
            => (mixer' = mixer /\ ret' = ReturnNone) ]_vars

\* add_track was called with the name of a track stored with another
\* oscillator and other steps
C1_Witness ==
    /\ last.op = "add_track"
    /\ \E i \in 1..Len(mixer._tracks) :
          /\ mixer._tracks[i][1] = last.name
          /\ mixer._tracks[i][2]._osc # last.osc
          /\ mixer._tracks[i][2]._steps # last.steps

\* C2: the tracks and the levels have the same key set, and the name
\* add_track was called with has level 1.0.
C2_TracksAndLevelsSameKeys ==
    /\ {mixer._tracks[i][1] : i \in 1..Len(mixer._tracks)}
          = {mixer._levels[i][1] : i \in 1..Len(mixer._levels)}
    /\ last.op = "add_track" =>
          /\ dict_contains(mixer._tracks, last.name)
          /\ dict_contains(mixer._levels, last.name)
          /\ mixer._levels[dict_index(mixer._levels, last.name)][2] = DefaultLevel

\* two tracks were added and the mixer was compiled and played
C2_Witness ==
    /\ last.op = "compile_play"
    /\ Len(mixer._tracks) = 2
    /\ Len(mixer._levels) = 2

-----------------------------------------------------------------------------
(* The registry *)

\* C3: add_oscillator with a registered name raises NameError and leaves
\* the registry as it was; with a new name it returns, appends that one
\* entry and keeps every entry that was there.
C3_AddOscillatorDuplicateFails ==
    [][ last'.op = "add_oscillator" =>
          IF dict_contains(_oscs, last'.name)
          THEN /\ ret'.raised = "NameError"
               /\ _oscs' = _oscs
          ELSE /\ ret' = ReturnNone
               /\ Len(_oscs') = Len(_oscs) + 1
               /\ \A i \in 1..Len(_oscs) : _oscs'[i] = _oscs[i]
               /\ _oscs'[Len(_oscs')] = <<last'.name, last'.wave_func>> ]_vars

\* a registered name was offered again with another generator, and refused
C3_Witness ==
    /\ last.op = "add_oscillator"
    /\ ret.raised = "NameError"
    /\ dict_contains(_oscs, last.name)
    /\ dict_get(_oscs, last.name) # last.wave_func
    /\ Len(_oscs) > Len(_oscs_init)

\* C4: Oscillator(wave) with a wave that is no registered name raises
\* NameError, and neither the registry nor any oscillator changes.
C4_UnknownWaveFails ==
    [][ (last'.op = "Oscillator" /\ ~dict_contains(_oscs, last'.wave))
            => /\ ret'.raised = "NameError"
               /\ _oscs' = _oscs
               /\ oscillators' = oscillators ]_vars

\* an unregistered wave was refused after a custom wave had been registered
C4_Witness ==
    /\ last.op = "Oscillator"
    /\ ret.raised = "NameError"
    /\ ~dict_contains(_oscs, last.wave)
    /\ Len(_oscs) > Len(_oscs_init)

\* C5: an oscillator is bound at construction to the generator the registry
\* holds for its wave; no later call changes an oscillator; and oscillate
\* applies the generator the oscillator holds.
C5_GeneratorBoundAtConstruction ==
    [][ /\ oscillators \subseteq oscillators'
        /\ (last'.op = "Oscillator" /\ ret'.raised = None) =>
              /\ ret'.val[1] \in oscillators'
              /\ ret'.val[1]._wave = last'.wave
              /\ ret'.val[1]._wave_func = dict_get(_oscs, last'.wave)
        /\ (last'.op = "oscillate" /\ ret'.raised = None) =>
              \A i \in 1..Len(ret'.val) :
                  ret'.val[i].gen = last'.osc._wave_func ]_vars

\* an oscillator of a custom wave produced samples while the registry held
\* another custom wave as well
C5_Witness ==
    /\ last.op = "oscillate"
    /\ last.osc._wave \in CustomNames
    /\ ret.raised = None
    /\ Len(ret.val) > 0
    /\ \E name \in CustomNames \ {last.osc._wave} : dict_contains(_oscs, name)

\* C10: the four built-in names stay the first four keys, each with its
\* built-in generator, and the keys after them are the custom names in the
\* order they were registered (a step only ever appends a key).
C10_BuiltinsFirstAndKept ==
    /\ _oscs = _oscs_init
    /\ [][ /\ SubSeq(_oscs', 1, 4) = _oscs_init
           /\ Len(_oscs') >= Len(_oscs)
           /\ \A i \in 1..Len(_oscs) : _oscs'[i][1] = _oscs[i][1]
           /\ \A i \in 5..Len(_oscs') : _oscs'[i][1] \in CustomNames ]_vars

\* both custom names are registered, and a built-in name was offered again
C10_Witness ==
    /\ Len(_oscs) = 6
    /\ last.op = "add_oscillator"
    /\ last.name \in BuiltinNames

-----------------------------------------------------------------------------
(* The sample grid *)

\* C6: oscillate of a built-in wave over Time(duration, start), duration >= 0,
\* returns floor(rate * duration) samples; sample i is taken at
\* start + i * duration / n (i from 0), and none at start + duration.
C6_OscillateLength ==
    (/\ last.op = "oscillate"
     /\ last.osc._wave \in BuiltinNames
     /\ last.t.duration >= 0) =>
        LET d == last.t.duration
            s == last.t.start
            n == (_sampling_rate * d) \div UnitsPerSecond
        IN  /\ ret.raised = None
            /\ ret.type = "ndarray"
            /\ Len(ret.val) = n
            /\ \A i \in 1..Len(ret.val) :
                  /\ ret.val[i].t.num * n = (s * n + (i - 1) * d) * ret.val[i].t.den
                  /\ ret.val[i].t.num # (s + d) * ret.val[i].t.den

\* two samples over two and a half sample periods, from a start after 0
C6_Witness ==
    /\ last.op = "oscillate"
    /\ last.osc._wave \in BuiltinNames
    /\ last.t.duration % 2 = 1
    /\ last.t.start > 0
    /\ ret.raised = None
    /\ Len(ret.val) = 2

\* C7: generating the sample sequence of a Time with duration < 0 raises;
\* it never returns an array.
C7_NegativeDurationRaises ==
    (last.op \in {"get_array", "oscillate"} /\ last.t.duration < 0)
        => ret.raised # None

-----------------------------------------------------------------------------
(* Compilation *)

\* the step sequencer: (pitch, duration) tokens to (Hz, time units)
resolve_step(step) ==
    << CASE step[1] = "A4" -> 440 [] step[1] = "E5" -> 659,
       CASE step[2] = "long" -> 4 [] step[2] = "short" -> 3 >>

\* one oscillate buffer per step, phase 0, each starting where the one
\* before ended, concatenated
RECURSIVE expected_track(_, _, _)
expected_track(osc, steps, offset) ==
    IF steps = <<>> THEN <<>>
    ELSE LET fd == resolve_step(Head(steps))
         IN  Oscillator_oscillate(osc, Time(fd[2], offset), fd[1], 0).val
                \o expected_track(osc, Tail(steps), offset + fd[2])

\* C8: Track.compile returns the concatenation, in step order, of the
\* oscillate buffers of the steps; for an empty step list an empty buffer.
C8_TrackCompileConcatenates ==
    last.op = "Track.compile_" =>
        LET track == mixer._tracks[dict_index(mixer._tracks, last.name)][2]
        IN  /\ ret.raised = None
            /\ ret.type = "ndarray"
            /\ ret.val = expected_track(track._osc, track._steps, 0)

\* C9: Mixer.compile gives one buffer as long as the longest compiled track;
\* sample k is the sum of level * compiled[k] over the tracks that reach k.
C9_MixerCompileSums ==
    last.op = "compile_" =>
        LET names == 1..Len(mixer._tracks)
            buf(i) == expected_track(mixer._tracks[i][2]._osc,
                                     mixer._tracks[i][2]._steps, 0)
            level(i) == mixer._levels[dict_index(mixer._levels, mixer._tracks[i][1])][2]
            longest == IF names = {} THEN 0
                       ELSE CHOOSE m \in {Len(buf(i)) : i \in names} :
                                \A i \in names : Len(buf(i)) <= m
        IN  /\ ret.raised = None
            /\ ret.type = "ndarray"
            /\ Len(ret.val) = longest
            /\ \A k \in 1..Len(ret.val) :
                  ret.val[k] = {[level |-> level(i), sample |-> buf(i)[k]] :
                                    i \in {j \in names : k <= Len(buf(j))}}

====
